---------------------------- MODULE Spec2Model ----------------------------
(***************************************************************************)
(* Model of google_calendar_to_slack_status.py: the event normaliser       *)
(* (clean_events), the window evaluator (is_within_next_event, strptime)   *)
(* and the orchestration (set_status_if_within_range, set_status).         *)
(*                                                                         *)
(* Representation of Python values                                         *)
(*   str      a sequence of tokens (TLA+ strings), '' is << >>; a token is *)
(*            a run of characters the code never splits: 'private' is      *)
(*            <<"private">>, '1970-01-01T00:06:40.500000Z' is              *)
(*            <<"1970-01-01T00:06:40", ".500000", "Z">>                    *)
(*   dict     a function from key names to values; a missing key is a key  *)
(*            outside DOMAIN                                               *)
(*   list     a sequence                                                   *)
(*   datetime a record [secs, micros, aware, utcoffset]                    *)
(*   a call   Return(v) or Raise(kind, msg)                                *)
(***************************************************************************)
EXTENDS Integers, Sequences, FiniteSets, TLC

VARIABLES
    events,          \* clean_events: the argument `events`
    cleaned,         \* clean_events: its outcome, or Pending
    now,             \* is_within_next_event: the argument `now`
    next_event,      \* is_within_next_event: the argument `next_event`
    minutes_before,  \* is_within_next_event: the argument `minutes_before`
    within,          \* is_within_next_event: its outcome, or Pending
    calendar,        \* what the calendar answers to events().list(...)
    local_utcoffset, \* the machine's time zone, used by naive .timestamp()
    run,             \* the latest run of set_status_if_within_range
    slack,           \* the profile the Slack workspace holds
    last_set         \* the latest call of set_status before that run

vars == <<events, cleaned, now, next_event, minutes_before, within,
          calendar, local_utcoffset, run, slack, last_set>>

----------------------------------------------------------------------------
(* Python primitives *)

EmptyStr == << >>

Str(token) == <<token>>

EmptyDict == << >>

Return(v) == [exc |-> "none", val |-> v]

Raise(kind, msg) == [exc |-> kind, msg |-> msg]

Returned(r) == r.exc = "none"

Pending == [exc |-> "pending"]

\* d.get(key, default)
Get(d, key, default) == IF key \in DOMAIN d THEN d[key] ELSE default

\* dict(d, **{key: value}) and d[key] = value
DictSet(d, key, value) ==
    [k \in DOMAIN d \cup {key} |-> IF k = key THEN value ELSE d[k]]

\* del d[key]
DictDel(d, key) == [k \in DOMAIN d \ {key} |-> d[k]]

----------------------------------------------------------------------------
(* Program constants *)

DEFAULT_STATUS == Str("busy")

MINUTES_BEFORE == 5

SecondsPerMinute == 60

MicrosPerSecond == 1000000

\* A key of `keys` is a str or a tuple of str.
StrKey(name) == [isstr |-> TRUE, path |-> <<name>>]

TupleKey(path) == [isstr |-> FALSE, path |-> path]

keys == << StrKey("summary"),
           TupleKey(<<"start", "dateTime">>),
           TupleKey(<<"end", "dateTime">>),
           StrKey("status"),
           StrKey("transparency"),
           StrKey("visibility"),
           StrKey("attendees") >>

attendees_key == "attendees"

response_key == "responseStatus"

----------------------------------------------------------------------------
(* Event normaliser *)

\* read_value(d, key), with `key` already a tuple (line 172-173 wraps a str)
RECURSIVE read_path(_, _)
read_path(d, path) ==
    IF Len(path) = 1
    THEN Get(d, path[1], EmptyStr)
    ELSE read_path(Get(d, path[1], EmptyDict), Tail(path))

read_value(d, key) == read_path(d, key.path)

get_key(keyname) == keyname.path[1]

\* [aa.get(response_key, '') for aa in event[attendees_key] if aa.get('self', False)]
RECURSIVE self_responses(_, _)
self_responses(attendees, rkey) ==
    IF Len(attendees) = 0 THEN << >>
    ELSE LET aa == Head(attendees)
             rest == self_responses(Tail(attendees), rkey)
         IN IF Get(aa, "self", FALSE)
            THEN <<Get(aa, rkey, EmptyStr)>> \o rest
            ELSE rest

get_my_response_status(event, akey, rkey) ==
    LET found == self_responses(event[akey], rkey)
    IN IF Len(found) = 0
       THEN Raise("IndexError", Str("list index out of range"))
       ELSE Return(found[1])

\* {get_key(kk): read_value(ee, kk) for kk in keys}
extract(ee, ks) ==
    [name \in {get_key(ks[i]) : i \in DOMAIN ks} |->
        LET i == CHOOSE j \in DOMAIN ks :
                    /\ get_key(ks[j]) = name
                    /\ \A h \in DOMAIN ks : get_key(ks[h]) = name => h <= j
        IN read_value(ee, ks[i])]

\* hide_private changed to hide 'confidential' events too
hide_private_and_confidential(ee_clean) ==
    IF Get(ee_clean, "visibility", EmptyStr)
           \in {Str("private"), Str("confidential")}
    THEN DictSet(ee_clean, "summary", DEFAULT_STATUS)
    ELSE ee_clean

\* private events get the default status as their summary (lines 252-253)
hide_private(ee_clean) ==
    IF Get(ee_clean, "visibility", EmptyStr) = Str("private")
    THEN DictSet(ee_clean, "summary", DEFAULT_STATUS)
    ELSE ee_clean

\* record_response changed to keep the attendee list
record_response_keeping_attendees(ee_clean, my_status) ==
    DictSet(ee_clean, response_key, my_status)

\* response recorded, attendee list dropped (lines 243-244)
record_response(ee_clean, my_status) ==
    DictDel(DictSet(ee_clean, response_key, my_status), attendees_key)

\* One iteration of the loop of clean_events over `ee`:
\* Return(<< >>) for `continue`, Return(<<ee_clean>>) for append, or Raise.
clean_one(ee) ==
    IF Get(ee, "transparency", EmptyStr) = Str("transparent")
    THEN Return(<< >>)
    ELSE IF "status" \notin DOMAIN ee
    THEN Raise("KeyError", Str("status"))
    ELSE IF ee["status"] # Str("confirmed")
    THEN Return(<< >>)
    ELSE LET ee_clean == extract(ee, keys)
             my_status == get_my_response_status(ee_clean, attendees_key,
                                                 response_key)
         IN IF ~Returned(my_status) THEN my_status
            ELSE IF my_status.val # Str("accepted") THEN Return(<< >>)
            ELSE Return(<<hide_private(record_response(ee_clean,
                                                       my_status.val))>>)

RECURSIVE clean_from(_, _)
clean_from(evs, events_clean) ==
    IF Len(evs) = 0 THEN Return(events_clean)
    ELSE LET r == clean_one(Head(evs))
         IN IF ~Returned(r) THEN r
            ELSE clean_from(Tail(evs), events_clean \o r.val)

clean_events(evs) == clean_from(evs, << >>)

----------------------------------------------------------------------------
(* Timestamp parsing *)

\* What datetime.strptime reads for '%Y-%m-%dT%H:%M:%S': the 19 characters of
\* a body and the seconds they count from 1970-01-01T00:00:00.
Bodies == << <<"1970-01-01T00:00:20", 20>>,
             <<"1970-01-01T00:01:10", 70>>,
             <<"1970-01-01T00:01:39", 99>>,
             <<"1970-01-01T00:01:40", 100>>,
             <<"1970-01-01T00:02:10", 130>>,
             <<"1970-01-01T00:02:40", 160>>,
             <<"1970-01-01T00:04:40", 280>>,
             <<"1970-01-01T00:06:40", 400>>,
             <<"1970-01-01T00:07:30", 450>>,
             <<"1970-01-01T00:07:40", 460>>,
             <<"1970-01-01T00:08:20", 500>>,
             <<"1970-01-01T00:08:21", 501>>,
             <<"1970-01-01T00:09:20", 560>> >>

\* What '.%f' reads.
Fractions == << <<".500000", 500000>> >>

\* What '%z' reads once the colon is stripped (line 269), in seconds.
Offsets == << <<"+00:01", 60>>, <<"-00:02", -120>>, <<"+00:00", 0>> >>

InTable(table, token) == \E i \in DOMAIN table : table[i][1] = token

Lookup(table, token) ==
    table[CHOOSE i \in DOMAIN table : table[i][1] = token][2]

\* str_time[19] == '.': the character after a 19-character body
dot_at_19(str_time) == Len(str_time) >= 2 /\ InTable(Fractions, str_time[2])

\* re.match(r'[\+\-]\d{2}:\d{2}', str_time[-6::])
offset_suffix(str_time) == InTable(Offsets, str_time[Len(str_time)])

\* datetime.strptime(str_time, fmt) for the fmt built by lines 261-270
parse(str_time, with_f, with_Z, with_z) ==
    LET n == 1 + (IF with_f THEN 1 ELSE 0)
               + (IF with_Z \/ with_z THEN 1 ELSE 0)
    IN IF /\ Len(str_time) = n
          /\ InTable(Bodies, str_time[1])
          /\ with_f => InTable(Fractions, str_time[2])
       THEN Return([secs |-> Lookup(Bodies, str_time[1]),
                    micros |-> IF with_f THEN Lookup(Fractions, str_time[2])
                               ELSE 0,
                    aware |-> with_z,
                    utcoffset |-> IF with_z
                                  THEN Lookup(Offsets, str_time[Len(str_time)])
                                  ELSE 0])
       ELSE Raise("ValueError", Str("time data does not match format"))

strptime(str_time) ==
    IF Len(str_time) = 0
    THEN Raise("IndexError", Str("string index out of range"))
    ELSE LET with_f == dot_at_19(str_time)
             set_utc == str_time[Len(str_time)] = "Z"
             with_z == ~set_utc /\ offset_suffix(str_time)
             dt == parse(str_time, with_f, set_utc, with_z)
         IN IF Returned(dt) /\ set_utc
            THEN Return([dt.val EXCEPT !.aware = TRUE, !.utcoffset = 0])
            ELSE dt

----------------------------------------------------------------------------
(* datetime arithmetic *)

None == [isnone |-> TRUE]

IsNone(x) == "isnone" \in DOMAIN x

\* microseconds on the time line the value is compared on: UTC for an aware
\* datetime, the wall clock for a naive one
Micros(dt) == (dt.secs - dt.utcoffset) * MicrosPerSecond + dt.micros

\* a - b, as the microseconds of the timedelta
dt_sub(a, b) ==
    IF IsNone(b)
    THEN Raise("TypeError", Str("unsupported operand type(s) for -"))
    ELSE IF a.aware # b.aware
    THEN Raise("TypeError",
               Str("can't subtract offset-naive and offset-aware datetimes"))
    ELSE Return(Micros(a) - Micros(b))

\* a <= b
dt_le(a, b) ==
    IF IsNone(a) \/ IsNone(b)
    THEN Raise("TypeError", Str("'<=' not supported with NoneType"))
    ELSE IF a.aware # b.aware
    THEN Raise("TypeError",
               Str("can't compare offset-naive and offset-aware datetimes"))
    ELSE Return(Micros(a) <= Micros(b))

\* int(dt.timestamp()): int() truncates toward zero
timestamp_int(dt, local) ==
    LET us == IF dt.aware THEN Micros(dt)
              ELSE (dt.secs - local) * MicrosPerSecond + dt.micros
    IN IF us >= 0 THEN us \div MicrosPerSecond
       ELSE -((-us) \div MicrosPerSecond)

----------------------------------------------------------------------------
(* Window evaluator *)

\* the message of the assert of line 298, its quoting marks left out
assert_message == <<"minutes_before", " must be a non-negative number.">>

\* window_test changed to leave out the instant minutes_before before start
window_test_exclusive(now_dt, start_dt, end_dt, minutes) ==
    LET diff == dt_sub(start_dt, now_dt)
    IN IF ~Returned(diff) THEN diff
       ELSE LET started == IF diff.val < minutes * SecondsPerMinute
                                         * MicrosPerSecond
                           THEN Return(TRUE)
                           ELSE dt_le(start_dt, now_dt)
            IN IF ~Returned(started) THEN started
               ELSE IF started.val THEN dt_le(now_dt, end_dt)
               ELSE Return(FALSE)

\* window_test changed to compare `now` with the end before the start
window_test_end_first(now_dt, start_dt, end_dt, minutes) ==
    LET ended == dt_le(now_dt, end_dt)
        diff == dt_sub(start_dt, now_dt)
    IN IF ~Returned(ended) THEN ended
       ELSE IF ~Returned(diff) THEN diff
       ELSE Return(ended.val /\ diff.val <= minutes * SecondsPerMinute
                                                    * MicrosPerSecond)

\* lines 305-306, with the strings already parsed
window_test(now_dt, start_dt, end_dt, minutes) ==
    LET diff == dt_sub(start_dt, now_dt)
    IN IF ~Returned(diff) THEN diff
       ELSE LET started == IF diff.val <= minutes * SecondsPerMinute
                                          * MicrosPerSecond
                           THEN Return(TRUE)
                           ELSE dt_le(start_dt, now_dt)
            IN IF ~Returned(started) THEN started
               ELSE IF started.val THEN dt_le(now_dt, end_dt)
               ELSE Return(FALSE)

\* lines 299-308: what follows the assert
window_of(now_dt, event, minutes) ==
    IF DOMAIN event = {} THEN Return(FALSE)
    ELSE IF "start" \notin DOMAIN event THEN Raise("KeyError", Str("start"))
    ELSE LET start_dt == strptime(event["start"])
         IN IF ~Returned(start_dt) THEN start_dt
            ELSE IF "end" \notin DOMAIN event
            THEN Raise("KeyError", Str("end"))
            ELSE LET end_dt == strptime(event["end"])
                 IN IF ~Returned(end_dt) THEN end_dt
                    ELSE window_test(now_dt, start_dt.val, end_dt.val,
                                     minutes)

\* is_within_next_event with the assert compiled away
is_within_next_event_unchecked(now_dt, event, minutes) ==
    window_of(now_dt, event, minutes)

is_within_next_event(now_dt, event, minutes) ==
    IF ~(minutes >= 0) THEN Raise("AssertionError", assert_message)
    ELSE window_of(now_dt, event, minutes)

----------------------------------------------------------------------------
(* Orchestration *)

\* lines 148-150: the loop that logs each fetched event reads event['start']
\* and event["summary"] without a default
RECURSIVE log_events(_)
log_events(evs) ==
    IF Len(evs) = 0 THEN Return(TRUE)
    ELSE LET event == Head(evs)
         IN IF "start" \notin DOMAIN event THEN Raise("KeyError", Str("start"))
            ELSE IF "summary" \notin DOMAIN event
            THEN Raise("KeyError", Str("summary"))
            ELSE log_events(Tail(evs))

\* get_next_events(now, 1, service), `items` being the calendar's answer
get_next_events(items) ==
    LET logged == log_events(items)
    IN IF Returned(logged) THEN Return(items) ELSE logged

\* expiration_of changed to read the start of the event
expiration_of_start(event, local) ==
    LET start_dt == strptime(event["start"])
    IN IF Returned(start_dt) THEN Return(timestamp_int(start_dt.val, local))
       ELSE start_dt

\* line 339
expiration_of(event, local) ==
    LET end_dt == strptime(event["end"])
    IN IF Returned(end_dt) THEN Return(timestamp_int(end_dt.val, local))
       ELSE end_dt

\* line 340: f"Meeting: {next_event['summary'] or DEFAULT_STATUS}"
status_text(event) ==
    Str("Meeting: ") \o (IF event["summary"] # EmptyStr
                         THEN event["summary"] ELSE DEFAULT_STATUS)

\* the profile set_status hands to users.profile.set
profile_of(text, emoji, expiration_unixtimestamp) ==
    [status_text |-> text,
     status_emoji |-> emoji,
     status_expiration |-> expiration_unixtimestamp]

default_emoji == Str(":spiral_calendar_pad:")

\* sink_calls changed to call the sink once more when it answers not ok
sink_calls_retrying(profile, ok) ==
    IF ok THEN <<[profile |-> profile, ok |-> TRUE]>>
    ELSE <<[profile |-> profile, ok |-> FALSE],
           [profile |-> profile, ok |-> TRUE]>>

\* lines 341-349: the calls the run makes to set_status, `ok` being the
\* sink's answer to the first
sink_calls(profile, ok) == <<[profile |-> profile, ok |-> ok]>>

NotEvaluated == "not evaluated"

Outcome(result, is_within, calls) ==
    [outcome |-> result, within |-> is_within, calls |-> calls]

\* set_status_when_within changed to let the status expire MINUTES_BEFORE
\* minutes after `now`
set_status_expiring_after_now(now_dt, event, ok, local) ==
    LET go == is_within_next_event(now_dt, event, MINUTES_BEFORE)
    IN IF ~Returned(go) THEN Outcome(go.exc, NotEvaluated, << >>)
       ELSE IF ~go.val THEN Outcome("returned", "false", << >>)
       ELSE Outcome("returned", "true",
                    sink_calls(profile_of(status_text(event), default_emoji,
                                          timestamp_int(now_dt, local)
                                            + MINUTES_BEFORE
                                              * SecondsPerMinute), ok))

\* lines 338-351: the window test and what follows it
set_status_when_within(now_dt, event, ok, local) ==
    LET go == is_within_next_event(now_dt, event, MINUTES_BEFORE)
    IN IF ~Returned(go) THEN Outcome(go.exc, NotEvaluated, << >>)
       ELSE IF ~go.val THEN Outcome("returned", "false", << >>)
       ELSE LET expiration == expiration_of(event, local)
            IN IF ~Returned(expiration)
               THEN Outcome(expiration.exc, "true", << >>)
               ELSE Outcome("returned", "true",
                            sink_calls(profile_of(status_text(event),
                                                  default_emoji,
                                                  expiration.val), ok))

\* set_status_if_within_range(now), with the calendar's answer `items`, the
\* sink's answer `ok` and the machine's UTC offset `local`
set_status_if_within_range(now_str, items, ok, local) ==
    LET fetched == get_next_events(items)
    IN IF ~Returned(fetched) THEN Outcome(fetched.exc, NotEvaluated, << >>)
       ELSE LET next_events == clean_events(fetched.val)
            IN IF ~Returned(next_events)
               THEN Outcome(next_events.exc, NotEvaluated, << >>)
               ELSE LET event == IF Len(next_events.val) > 0
                                 THEN next_events.val[1] ELSE EmptyDict
                        now_dt == strptime(now_str)
                    IN IF ~Returned(now_dt)
                       THEN Outcome(now_dt.exc, NotEvaluated, << >>)
                       ELSE set_status_when_within(now_dt.val, event, ok,
                                                   local)

\* what Slack holds after the calls: a call it answers with ok replaces the
\* profile, a call it refuses changes nothing
RECURSIVE apply_calls(_, _)
apply_calls(held, calls) ==
    IF Len(calls) = 0 THEN held
    ELSE apply_calls(IF Head(calls).ok THEN Head(calls).profile ELSE held,
                     Tail(calls))

----------------------------------------------------------------------------
(* Inputs *)

MaxEvents == 2

MaxTime == 110

MaxMinutes == 1

Ts(body) == <<body>>

TsZ(body) == <<body, "Z">>

TsOff(body, offset) == <<body, offset>>

TsFracZ(body) == <<body, ".500000", "Z">>

Me(response) == [email |-> Str("me@example.com"), self |-> TRUE,
                 responseStatus |-> Str(response)]

Guest == [email |-> Str("guest@example.com"), self |-> FALSE,
          responseStatus |-> Str("accepted")]

\* an accepted, confirmed, busy event from 00:06:40Z to 00:08:20Z, as the
\* calendar returns it (transparency is left out when it is "opaque")
BaseEvent ==
    [id |-> Str("evt"),
     summary |-> Str("Team Sync"),
     start |-> [dateTime |-> TsZ("1970-01-01T00:06:40"),
                timeZone |-> Str("UTC")],
     end |-> [dateTime |-> TsZ("1970-01-01T00:08:20"),
              timeZone |-> Str("UTC")],
     status |-> Str("confirmed"),
     visibility |-> Str("default"),
     attendees |-> <<Guest, Me("accepted")>>]

Absent == Str("(absent)")

\* `event` with `key` set to `value`, or without `key`
With(event, key, value) ==
    IF value = Absent THEN DictDel(event, key) ELSE DictSet(event, key, value)

Timed(event, start_str, end_str) ==
    DictSet(DictSet(event, "start", [dateTime |-> start_str]),
            "end", [dateTime |-> end_str])

FilterEvents ==
    { With(With(BaseEvent, "transparency", t), "status", st) :
        t \in {Absent, Str("opaque"), Str("transparent")},
        st \in {Absent, Str("confirmed"), Str("tentative")} }

AttendeeLists ==
    { << >>, <<Guest>>, <<[email |-> Str("guest@example.com")]>>,
      <<Me("declined")>>, <<Me("tentative"), Guest>>,
      <<[self |-> TRUE]>>, <<Me("declined"), Me("accepted")>>,
      <<Me("accepted"), Me("declined")>> }

AttendeeEvents ==
    { DictSet(BaseEvent, "attendees", a) : a \in AttendeeLists }
    \cup { DictDel(BaseEvent, "attendees") }

FieldEvents ==
    { With(With(BaseEvent, "visibility", v), "summary", title) :
        v \in {Absent, Str("private"), Str("confidential"), Str("public")},
        title \in {Absent, EmptyStr, Str("Standup")} }

ShapeEvents ==
    { DictDel(BaseEvent, "start"), DictDel(BaseEvent, "end"),
      DictSet(BaseEvent, "start", [date |-> Str("1970-01-01")]),
      DictSet(BaseEvent, "end", EmptyDict),
      Timed(BaseEvent, TsOff("1970-01-01T00:04:40", "-00:02"),
                       TsOff("1970-01-01T00:09:20", "+00:01")) }

RawEvents == FilterEvents \cup AttendeeEvents \cup FieldEvents \cup ShapeEvents

EventLists == UNION { [1..n -> RawEvents] : n \in 0..MaxEvents }

\* arguments of is_within_next_event
Datetimes ==
    { [secs |-> t, micros |-> 0, aware |-> tz[1], utcoffset |-> tz[2]] :
        t \in 0..MaxTime, tz \in {<<FALSE, 0>>, <<TRUE, 0>>, <<TRUE, 60>>} }

NowValues == Datetimes \cup {None}

StartStrings ==
    { TsZ("1970-01-01T00:01:10"), TsOff("1970-01-01T00:02:10", "+00:01"),
      Ts("1970-01-01T00:01:10"), TsFracZ("1970-01-01T00:01:10"),
      EmptyStr, Str("1970-01-01"), <<"1970-01-01T00:01:10", "+0001">> }

EndStrings ==
    { TsZ("1970-01-01T00:01:40"), TsOff("1970-01-01T00:02:40", "+00:01"),
      Ts("1970-01-01T00:01:40"), TsFracZ("1970-01-01T00:01:40"),
      EmptyStr, TsZ("1970-01-01T00:00:20") }

WindowEvents ==
    { [start |-> st, end |-> en, foo |-> Str("bar")] :
        st \in StartStrings, en \in EndStrings }
    \cup { EmptyDict,
           [end |-> TsZ("1970-01-01T00:01:40")],
           [start |-> TsZ("1970-01-01T00:01:10")] }

MinuteValues == -1..MaxMinutes

\* arguments of set_status_if_within_range and answers of the calendar
NowStrings ==
    { TsZ("1970-01-01T00:01:39"), TsZ("1970-01-01T00:01:40"),
      TsZ("1970-01-01T00:06:40"), TsZ("1970-01-01T00:08:20"),
      TsZ("1970-01-01T00:08:21"), <<"1970-01-01T00:07:30", ".500000", "Z">>,
      Ts("1970-01-01T00:01:40"), Ts("1970-01-01T00:07:30"),
      TsOff("1970-01-01T00:07:40", "+00:01"), EmptyStr }

CalendarEvents ==
    { BaseEvent,
      With(BaseEvent, "visibility", Str("private")),
      With(BaseEvent, "summary", EmptyStr),
      With(BaseEvent, "summary", Absent),
      With(With(BaseEvent, "visibility", Str("private")), "summary", EmptyStr),
      With(BaseEvent, "summary", DEFAULT_STATUS),
      DictSet(BaseEvent, "attendees", <<Me("declined")>>),
      DictSet(BaseEvent, "attendees", <<Guest>>),
      With(BaseEvent, "transparency", Str("transparent")),
      With(BaseEvent, "status", Absent),
      DictSet(BaseEvent, "start", [date |-> Str("1970-01-01")]),
      Timed(BaseEvent, TsOff("1970-01-01T00:04:40", "-00:02"),
                       TsOff("1970-01-01T00:09:20", "+00:01")),
      Timed(BaseEvent, Ts("1970-01-01T00:06:40"), Ts("1970-01-01T00:08:20")),
      Timed(BaseEvent, TsZ("1970-01-01T00:06:40"),
                       TsFracZ("1970-01-01T00:08:20")),
      Timed(BaseEvent, TsZ("1970-01-01T00:06:40"),
                       TsZ("1970-01-01T00:09:20")),
      Timed(BaseEvent, TsZ("1970-01-01T00:06:40"),
                       Ts("1970-01-01T00:08:20")) }

\* maxResults=1: the calendar answers with no event or with one
CalendarAnswers == { << >> } \cup { <<e>> : e \in CalendarEvents }

LocalOffsets == {0, 60}

----------------------------------------------------------------------------
(* State machine *)

NoProfile == profile_of(EmptyStr, EmptyStr, 0)

NoCall == [called |-> FALSE, now |-> EmptyStr, profile |-> NoProfile,
           ok |-> FALSE]

NoRun == [now |-> EmptyStr, outcome |-> "not run", within |-> NotEvaluated,
          calls |-> << >>]

IdleClean == events = << >> /\ cleaned = Pending

IdleWithin ==
    /\ now = None
    /\ next_event = EmptyDict
    /\ minutes_before = 0
    /\ within = Pending

IdleRun ==
    /\ calendar = << >>
    /\ local_utcoffset = 0
    /\ run = NoRun
    /\ slack = NoProfile
    /\ last_set = NoCall

\* clean_events(events)
InitClean ==
    /\ events \in EventLists
    /\ cleaned = Pending
    /\ IdleWithin
    /\ IdleRun

CleanEvents ==
    /\ cleaned = Pending
    /\ cleaned' = clean_events(events)
    /\ UNCHANGED <<events, now, next_event, minutes_before, within,
                   calendar, local_utcoffset, run, slack, last_set>>

SpecClean == InitClean /\ [][CleanEvents]_vars

\* is_within_next_event(now, next_event, minutes_before)
InitWithin ==
    /\ now \in NowValues
    /\ next_event \in WindowEvents
    /\ minutes_before \in MinuteValues
    /\ within = Pending
    /\ IdleClean
    /\ IdleRun

IsWithinNextEvent ==
    /\ within = Pending
    /\ within' = is_within_next_event(now, next_event, minutes_before)
    /\ UNCHANGED <<events, cleaned, now, next_event, minutes_before,
                   calendar, local_utcoffset, run, slack, last_set>>

SpecWithin == InitWithin /\ [][IsWithinNextEvent]_vars

\* The scheduler runs set_status_if_within_range(now) again and again (lines
\* 16-19, 357-363). The calendar's answer is drawn once: the runs of one
\* behaviour are runs over the same raw event.
InitRun ==
    /\ calendar \in CalendarAnswers
    /\ local_utcoffset \in LocalOffsets
    /\ run = NoRun
    /\ slack = NoProfile
    /\ last_set = NoCall
    /\ IdleClean
    /\ IdleWithin

SetStatusIfWithinRange ==
    \E now_str \in NowStrings, ok \in BOOLEAN :
        LET r == set_status_if_within_range(now_str, calendar, ok,
                                            local_utcoffset)
        IN /\ run' = [now |-> now_str, outcome |-> r.outcome,
                      within |-> r.within, calls |-> r.calls]
           /\ slack' = apply_calls(slack, r.calls)
           /\ last_set' = IF Len(run.calls) > 0
                          THEN [called |-> TRUE, now |-> run.now,
                                profile |-> run.calls[Len(run.calls)].profile,
                                ok |-> run.calls[Len(run.calls)].ok]
                          ELSE last_set
           /\ UNCHANGED <<events, cleaned, now, next_event, minutes_before,
                          within, calendar, local_utcoffset>>

SpecRun == InitRun /\ [][SetStatusIfWithinRange]_vars

----------------------------------------------------------------------------
(* What the claims speak of, read off the raw events *)

NonTransparent(e) ==
    "transparency" \notin DOMAIN e \/ e["transparency"] # Str("transparent")

Confirmed(e) == "status" \in DOMAIN e /\ e["status"] = Str("confirmed")

SelfAttendees(e) ==
    IF "attendees" \in DOMAIN e
    THEN SelectSeq(e["attendees"],
                   LAMBDA a : "self" \in DOMAIN a /\ a["self"] = TRUE)
    ELSE << >>

HasSelf(e) == Len(SelfAttendees(e)) > 0

Accepted(e) ==
    /\ HasSelf(e)
    /\ "responseStatus" \in DOMAIN SelfAttendees(e)[1]
    /\ SelfAttendees(e)[1]["responseStatus"] = Str("accepted")

Passes(e) == NonTransparent(e) /\ Confirmed(e) /\ Accepted(e)

\* the events clean_events is to keep, in input order
Kept(evs) == SelectSeq(evs, Passes)

\* the value at a path of one or two keys, '' when it is missing
Field1(e, k) == IF k \in DOMAIN e THEN e[k] ELSE EmptyStr

Field2(e, k1, k2) ==
    IF k1 \in DOMAIN e /\ k2 \in DOMAIN e[k1] THEN e[k1][k2] ELSE EmptyStr

\* the canonical event `c` carries the times, state and response of raw `e`
ComesFrom(c, e) ==
    /\ {"start", "end", "status", "transparency", "visibility",
        "responseStatus"} \subseteq DOMAIN c
    /\ c["start"] = Field2(e, "start", "dateTime")
    /\ c["end"] = Field2(e, "end", "dateTime")
    /\ c["status"] = Field1(e, "status")
    /\ c["transparency"] = Field1(e, "transparency")
    /\ c["visibility"] = Field1(e, "visibility")
    /\ c["responseStatus"] = Str("accepted")

CanonicalKeys == {"summary", "start", "end", "status", "transparency",
                  "visibility", "responseStatus"}

Private(e) == "visibility" \in DOMAIN e /\ e["visibility"] = Str("private")

----------------------------------------------------------------------------
(* Claims on clean_events, checked under SpecClean *)

\* C2: for every list in which each non-transparent, confirmed event has a
\* self attendee, clean_events returns, in input order, one canonical event
\* for exactly the events that are not transparent, confirmed and accepted.
C2_KeepsExactlyThePassingEvents ==
    (/\ cleaned # Pending
     /\ \A i \in DOMAIN events :
            NonTransparent(events[i]) /\ Confirmed(events[i])
                => HasSelf(events[i]))
    => /\ Returned(cleaned)
       /\ Len(cleaned.val) = Len(Kept(events))
       /\ \A i \in DOMAIN cleaned.val :
              ComesFrom(cleaned.val[i], Kept(events)[i])

C7_CanonicalKeySet ==
    (cleaned # Pending /\ Returned(cleaned))
    => /\ Len(cleaned.val) = Len(Kept(events))
       /\ \A i \in DOMAIN cleaned.val :
              /\ DOMAIN cleaned.val[i] = CanonicalKeys
              /\ cleaned.val[i]["start"]
                    = Field2(Kept(events)[i], "start", "dateTime")
              /\ cleaned.val[i]["end"]
                    = Field2(Kept(events)[i], "end", "dateTime")

C7_Witness ==
    /\ cleaned # Pending
    /\ Returned(cleaned)
    /\ Len(cleaned.val) = 2
    /\ Private(Kept(events)[1])
    /\ DOMAIN cleaned.val[1] = CanonicalKeys
    /\ "start" \notin DOMAIN Kept(events)[2]
    /\ "id" \in DOMAIN Kept(events)[2]
    /\ cleaned.val[2]["start"] = EmptyStr

\* C9: clean_events never raises because a field is missing: every missing
\* value is read as '', and it fails only in the self-attendee lookup of an
\* event that passed the busy and confirmation filters.
C9_OnlyTheSelfLookupFails ==
    cleaned # Pending
    => IF Returned(cleaned)
       THEN /\ Len(cleaned.val) = Len(Kept(events))
            /\ \A i \in DOMAIN cleaned.val :
                   /\ ComesFrom(cleaned.val[i], Kept(events)[i])
                   /\ Private(Kept(events)[i])
                      \/ cleaned.val[i]["summary"]
                            = Field1(Kept(events)[i], "summary")
       ELSE /\ cleaned.exc = "IndexError"
            /\ \E i \in DOMAIN events :
                   /\ NonTransparent(events[i])
                   /\ Confirmed(events[i])
                   /\ ~HasSelf(events[i])

----------------------------------------------------------------------------
(* Claims on is_within_next_event, checked under SpecWithin *)

Called == within # Pending

\* the event is not empty and its start and end both parse
Parses ==
    /\ DOMAIN next_event # {}
    /\ "start" \in DOMAIN next_event
    /\ "end" \in DOMAIN next_event
    /\ Returned(strptime(next_event["start"]))
    /\ Returned(strptime(next_event["end"]))

StartDt == strptime(next_event["start"]).val

EndDt == strptime(next_event["end"]).val

\* microseconds since 1970-01-01T00:00:00Z of an aware datetime
UtcMicros(dt) == (dt.secs - dt.utcoffset) * 1000000 + dt.micros

\* microseconds on the wall clock of a naive datetime
WallMicros(dt) == dt.secs * 1000000 + dt.micros

AllAware ==
    /\ ~IsNone(now) /\ now.aware
    /\ Parses /\ StartDt.aware /\ EndDt.aware

\* C1: for an aware `now`, an event with aware start and end and
\* minutes_before >= 0, the result is true exactly when start - now is at most
\* minutes_before*60 seconds and now <= end, both bounds included.
C1_WindowIsInclusive ==
    (Called /\ minutes_before >= 0 /\ AllAware)
    => /\ Returned(within)
       /\ within.val
            <=> /\ UtcMicros(StartDt) - UtcMicros(now)
                      <= minutes_before * 60 * 1000000
                /\ UtcMicros(now) <= UtcMicros(EndDt)

\* now is exactly minutes_before*60 seconds before start and the answer is true
C1_Witness ==
    /\ Called /\ AllAware
    /\ minutes_before = 1
    /\ UtcMicros(StartDt) - UtcMicros(now) = 60 * 1000000
    /\ UtcMicros(now) <= UtcMicros(EndDt)
    /\ Returned(within) /\ within.val = TRUE

\* C4: for minutes_before < 0 the call fails with an error naming
\* `minutes_before`, whatever `now` and the event are, and returns no boolean.
C4_NegativeMinutesRejected ==
    (Called /\ minutes_before < 0)
    => /\ within.exc = "AssertionError"
       /\ \E i \in DOMAIN within.msg : within.msg[i] = "minutes_before"

\* a negative minutes_before with now = None and an event that does not parse
C4_Witness ==
    /\ Called
    /\ minutes_before < 0
    /\ IsNone(now)
    /\ DOMAIN next_event # {}
    /\ ~Parses
    /\ within.exc = "AssertionError"

\* `now` and the parsed timestamp `dt` mix a naive and an aware instant
Mixed(dt) == now.aware # dt.aware

\* C10 as stated: with minutes_before >= 0 and a non-empty event, the call
\* always fails when `now` and the parsed start or end mix naive and aware.
C10_MixedAlwaysFails ==
    (/\ Called /\ minutes_before >= 0 /\ ~IsNone(now) /\ Parses
     /\ Mixed(StartDt) \/ Mixed(EndDt))
    => ~Returned(within)

\* C10 as amended: the call fails with a TypeError when `now` and start mix
\* naive and aware; when only `now` and end mix, it fails with a TypeError
\* exactly when now is at or after start - minutes_before*60 seconds, and
\* otherwise returns false without comparing `now` with end.
C10_MixedFailsWhenCompared ==
    (/\ Called /\ minutes_before >= 0 /\ ~IsNone(now) /\ Parses
     /\ Mixed(StartDt) \/ Mixed(EndDt))
    => IF Mixed(StartDt)
       THEN within.exc = "TypeError"
       ELSE LET early ==
                    IF now.aware
                    THEN UtcMicros(StartDt) - UtcMicros(now)
                            > minutes_before * 60 * 1000000
                    ELSE WallMicros(StartDt) - WallMicros(now)
                            > minutes_before * 60 * 1000000
            IN IF early THEN Returned(within) /\ within.val = FALSE
               ELSE within.exc = "TypeError"

\* only the end mixes with `now`, now is inside the window of start, and the
\* call fails
C10_Witness ==
    /\ Called /\ minutes_before >= 0 /\ ~IsNone(now) /\ Parses
    /\ ~Mixed(StartDt) /\ Mixed(EndDt)
    /\ within.exc = "TypeError"

----------------------------------------------------------------------------
(* Claims on set_status_if_within_range, checked under SpecRun *)

RunDone == run.outcome # "not run"

\* the first canonical event of the run, {} when none is left
FirstCanonical ==
    LET c == clean_events(calendar)
    IN IF Len(c.val) > 0 THEN c.val[1] ELSE EmptyDict

\* the run came to evaluate is_within_next_event for the first canonical
\* event, and it was true
WindowOpen ==
    /\ Returned(get_next_events(calendar))
    /\ Returned(clean_events(calendar))
    /\ Returned(strptime(run.now))
    /\ LET w == is_within_next_event(strptime(run.now).val, FirstCanonical,
                                     MINUTES_BEFORE)
       IN Returned(w) /\ w.val

Embeds(text, s) ==
    \E i \in 1..(Len(text) + 1), j \in 0..Len(text) : SubSeq(text, i, j) = s

\* the end of the raw event, in microseconds since 1970-01-01T00:00:00Z; a
\* naive end is a time of the machine's zone
RawEndMicros ==
    LET dt == strptime(Field2(calendar[1], "end", "dateTime")).val
    IN IF dt.aware THEN UtcMicros(dt)
       ELSE WallMicros(dt) - local_utcoffset * 1000000

RawEndIsWhole ==
    strptime(Field2(calendar[1], "end", "dateTime")).val.micros = 0

\* C6: whenever the run calls the sink, the expiration is the end of the first
\* canonical event as a Unix timestamp in whole seconds, and the text embeds
\* the canonical summary: the raw title of a non-private event, the default
\* status of a private one.
C6_ExpirationIsEventEnd ==
    (RunDone /\ Len(run.calls) > 0)
    => \A i \in DOMAIN run.calls :
          LET p == run.calls[i].profile
          IN /\ p.status_expiration * 1000000 > RawEndMicros - 1000000
             /\ p.status_expiration * 1000000 < RawEndMicros + 1000000
             /\ RawEndIsWhole
                    => p.status_expiration * 1000000 = RawEndMicros
             /\ Embeds(p.status_text,
                       IF Private(calendar[1]) THEN DEFAULT_STATUS
                       ELSE Field1(calendar[1], "summary"))

\* a call for a private event that has a title of its own
C6_Witness ==
    /\ RunDone
    /\ Len(run.calls) > 0
    /\ Private(calendar[1])
    /\ Field1(calendar[1], "summary") = Str("Team Sync")
    /\ Embeds(run.calls[1].profile.status_text, DEFAULT_STATUS)
    /\ ~Embeds(run.calls[1].profile.status_text, Str("Team Sync"))

\* C8: a run inside the window, after an earlier run over the same raw event
\* that called the sink, passes the sink the same text and expiration; the
\* profile the sink took from the earlier call is the profile it holds after
\* this run.
C8_RepeatedRunsPassTheSame ==
    (RunDone /\ Len(run.calls) > 0 /\ last_set.called)
    => /\ \A i \in DOMAIN run.calls :
              /\ run.calls[i].profile.status_text
                    = last_set.profile.status_text
              /\ run.calls[i].profile.status_expiration
                    = last_set.profile.status_expiration
       /\ last_set.ok => slack = last_set.profile

\* two runs at different instants of the window, both calling the sink
C8_Witness ==
    /\ RunDone
    /\ Len(run.calls) > 0
    /\ last_set.called
    /\ last_set.ok
    /\ last_set.now # run.now
    /\ slack = run.calls[1].profile

============================================================================
